---- MODULE Spec2Model ----
(***************************************************************************)
(* Consentium IoT client helper: the two variants of the module            *)
(* (src/unnamed/part_000: direct calls with overridable base URLs and SSL  *)
(* options; src/consentium.js: calls relayed through an optional proxy).   *)
(*                                                                         *)
(* JavaScript strings are sequences of one-character strings; JavaScript   *)
(* values are tagged records (Null, Undefined, Str(s), Num(n), ...).       *)
(***************************************************************************)
EXTENDS Integers, Sequences, FiniteSets, TLC

VARIABLES
  variant,            \* which file is loaded: "part_000" or "consentium"
  proxyBase,          \* src/consentium.js: let proxyBase
  overrideSendUrl,    \* src/unnamed/part_000: let overrideSendUrl
  overrideReceiveUrl, \* src/unnamed/part_000: let overrideReceiveUrl
  sslOptions,         \* src/unnamed/part_000: let sslOptions
  calls,              \* each caller's invocation: its position and locals
  caller,             \* each caller's own objects: the sensors array and boardInfo
  wire,               \* the request the server received from each invocation
  macIn, macOnce, macTwice, macPc,   \* normalizeMac applied once and twice
  flatRes, flatOut, flatPc           \* receiveData from the response text on

cfgVars == <<proxyBase, overrideSendUrl, overrideReceiveUrl, sslOptions>>

callVars == <<variant, proxyBase, overrideSendUrl, overrideReceiveUrl, sslOptions,
              calls, caller, wire>>

macVars == <<macIn, macOnce, macTwice, macPc>>

flatVars == <<flatRes, flatOut, flatPc>>

vars == <<variant, proxyBase, overrideSendUrl, overrideReceiveUrl, sslOptions,
          calls, caller, wire, macIn, macOnce, macTwice, macPc,
          flatRes, flatOut, flatPc>>

(***************************************************************************)
(* JavaScript values                                                       *)
(***************************************************************************)
Null == [t |-> "null"]

Undefined == [t |-> "undefined"]

Str(s) == [t |-> "string", s |-> s]

\* numbers are fixed-point: Num(m) is m thousandths
Num(m) == [t |-> "number", m |-> m]

NaN == [t |-> "NaN"]

Bool(b) == [t |-> "boolean", b |-> b]

\* a plain object: a finite mapping from property keys to values
Obj(f) == [t |-> "object", f |-> f]

\* an array: a sequence of values
Arr(a) == [t |-> "array", a |-> a]

\* an object's undefined properties are absent
Prune(rec) == [k \in {j \in DOMAIN rec : rec[j] # Undefined} |-> rec[k]]

EmptyObj == Obj(Prune([none |-> Undefined]))

\* the decimal digits a number of the model carries after the point
FracDigits == 3

RECURSIVE Pow10(_)
Pow10(n) == IF n <= 0 THEN 1 ELSE 10 * Pow10(n - 1)

Scale == Pow10(FracDigits)

\* !v
IsFalsy(v) ==
  \/ v = Null
  \/ v = Undefined
  \/ v = NaN
  \/ v = Str(<<>>)
  \/ v = Num(0)
  \/ v = Bool(FALSE)

\* a || b
OrElse(a, b) == IF IsFalsy(a) THEN b ELSE a

\* v == null (null or undefined): a property read on it throws a TypeError
Nullish(v) == v = Null \/ v = Undefined

\* o[key] for a non-nullish o and a named key, which no string, number,
\* boolean or array of the model carries
Get(o, key) ==
  IF o.t = "object" /\ key \in DOMAIN o.f THEN o.f[key] ELSE Undefined

(***************************************************************************)
(* Number(v): numeric coercion                                             *)
(***************************************************************************)
Digits == <<"0", "1", "2", "3", "4", "5", "6", "7", "8", "9">>

IsDigit(c) == \E d \in 1..Len(Digits) : Digits[d] = c

DigitVal(c) == (CHOOSE d \in 1..Len(Digits) : Digits[d] = c) - 1

\* the value of a string of decimal digits
RECURSIVE DigitsToInt(_)
DigitsToInt(s) ==
  IF s = <<>> THEN 0
  ELSE 10 * DigitsToInt(SubSeq(s, 1, Len(s) - 1)) + DigitVal(s[Len(s)])

\* the position of the first '.', or 0
DotAt(s) ==
  IF \E i \in 1..Len(s) : s[i] = "."
  THEN CHOOSE i \in 1..Len(s) : s[i] = "." /\ \A j \in 1..(i - 1) : s[j] # "."
  ELSE 0

\* Number(s) for a string: "" is 0, [-]digits[.digits] is its decimal value
\* (at most FracDigits fraction digits in the model's strings), anything else NaN
StringToNumber(s) ==
  IF s = <<>> THEN Num(0)
  ELSE LET neg == Head(s) = "-"
           body == IF neg THEN Tail(s) ELSE s
           dot == DotAt(body)
           ip == IF dot = 0 THEN body ELSE SubSeq(body, 1, dot - 1)
           fp == IF dot = 0 THEN <<>> ELSE SubSeq(body, dot + 1, Len(body))
           wellFormed ==
             /\ Len(ip) + Len(fp) > 0
             /\ \A i \in 1..Len(ip) : IsDigit(ip[i])
             /\ \A i \in 1..Len(fp) : IsDigit(fp[i])
             /\ Pow10(Len(fp)) <= Scale
           mag == DigitsToInt(ip) * Scale + DigitsToInt(fp) * (Scale \div Pow10(Len(fp)))
       IN IF ~wellFormed THEN NaN ELSE Num(IF neg THEN -mag ELSE mag)

\* Number(v)
ToNumber(v) ==
  CASE v.t = "number" -> v
    [] v.t = "NaN" -> NaN
    [] v.t = "string" -> StringToNumber(v.s)
    [] v.t = "null" -> Num(0)
    [] v.t = "boolean" -> IF v.b THEN Num(Scale) ELSE Num(0)
    [] v.t = "array" -> IF v.a = <<>> THEN Num(0) ELSE NaN
    [] OTHER -> NaN

(***************************************************************************)
(* receiveData: the flattening of the parsed response                      *)
(***************************************************************************)
\* for (let i = 1; i <= 8; i++)
NumIndices == 8

\* `info${i}` and `value${i}`
InfoKey(i) == <<"info1", "info2", "info3", "info4", "info5", "info6", "info7", "info8">>[i]

ValueKey(i) == <<"value1", "value2", "value3", "value4",
                 "value5", "value6", "value7", "value8">>[i]

TypeError(msg) == [name |-> "TypeError", message |-> msg]

\* a completion: a value, or a thrown error
Normal(v) == [threw |-> FALSE, value |-> v]

Throw(e) == [threw |-> TRUE, error |-> e]

\* the readings of one feed from index i on; reading feed[valueKey] of a
\* null feed throws, and it is read only when board[infoKey] is defined
RECURSIVE FeedReadings(_, _, _)
FeedReadings(board, feed, i) ==
  IF i > NumIndices THEN Normal(<<>>)
  ELSE IF Get(board, InfoKey(i)) = Undefined THEN FeedReadings(board, feed, i + 1)
  ELSE IF Nullish(feed) THEN Throw(TypeError("Cannot read properties of null"))
  ELSE LET rest == FeedReadings(board, feed, i + 1)
       IN IF rest.threw THEN rest
          ELSE IF Get(feed, ValueKey(i)) = Undefined THEN rest
          ELSE Normal(<<[info |-> Get(board, InfoKey(i)),
                         value |-> ToNumber(Get(feed, ValueKey(i)))]>> \o rest.value)

\* a slip: each feed's readings are put in front of the earlier feeds' ones
RECURSIVE FeedsReadings_newestFirst(_, _, _)
FeedsReadings_newestFirst(board, items, k) ==
  IF k > Len(items) THEN Normal(<<>>)
  ELSE LET here == FeedReadings(board, items[k], 1)
       IN IF here.threw THEN here
          ELSE LET rest == FeedsReadings_newestFirst(board, items, k + 1)
               IN IF rest.threw THEN rest ELSE Normal(rest.value \o here.value)

\* the readings of the feeds from position k on, in order
RECURSIVE FeedsReadings(_, _, _)
FeedsReadings(board, items, k) ==
  IF k > Len(items) THEN Normal(<<>>)
  ELSE LET here == FeedReadings(board, items[k], 1)
       IN IF here.threw THEN here
          ELSE LET rest == FeedsReadings(board, items, k + 1)
               IN IF rest.threw THEN rest ELSE Normal(here.value \o rest.value)

\* for (const feed of feeds): an array yields its elements, a string its
\* characters, and any other value is not iterable
Iterate(feeds) ==
  CASE feeds.t = "array" -> Normal(feeds.a)
    [] feeds.t = "string" -> Normal([i \in 1..Len(feeds.s) |-> Str(<<feeds.s[i]>>)])
    [] OTHER -> Throw(TypeError("feeds is not iterable"))

\* const board = json.board || {}; const feeds = json.feeds || []; the loops
Flatten(json) ==
  LET board == OrElse(Get(json, "board"), EmptyObj)
      feeds == OrElse(Get(json, "feeds"), Arr(<<>>))
      items == Iterate(feeds)
  IN IF items.threw THEN items ELSE FeedsReadings(board, items.value, 1)

(***************************************************************************)
(* The HTTP exchange: response texts, JSON.parse, JSON.stringify, errors   *)
(***************************************************************************)
\* a text that is the JSON serialization of v, and a text that is no JSON
JsonText(v) == [t |-> "text", isJson |-> TRUE, value |-> v]

RawText(s) == [t |-> "text", isJson |-> FALSE, raw |-> s]

\* JSON.parse(text)
JSONparse(text) ==
  IF text.isJson THEN Normal(text.value)
  ELSE Throw([name |-> "SyntaxError", message |-> "Unexpected token"])

\* what JSON.stringify keeps of a value: an object's undefined properties
\* are dropped, NaN becomes null (objects nest at most three deep here)
StringifyLeaf(v) == IF v = NaN \/ v = Undefined THEN Null ELSE v

StringifyObj(v, Inner(_)) ==
  CASE v.t = "object" ->
         Obj([k \in {j \in DOMAIN v.f : v.f[j] # Undefined} |-> Inner(v.f[k])])
    [] v.t = "array" -> Arr([i \in 1..Len(v.a) |-> Inner(v.a[i])])
    [] OTHER -> StringifyLeaf(v)

Stringify1(v) == StringifyObj(v, StringifyLeaf)

Stringify2(v) == StringifyObj(v, Stringify1)

Stringify3(v) == StringifyObj(v, Stringify2)

JSONstringify(v) == JsonText(StringifyObj(v, Stringify3))

\* err.message.toLowerCase().includes('failed to fetch')
IncludesFailedToFetch(msg) == msg \in {"Failed to fetch", "TypeError: Failed to fetch"}

\* the catch block: { ok: false, status: 0, error: hint }
CatchResult(err, friendly) ==
  [ok |-> FALSE, status |-> 0,
   error |-> IF IncludesFailedToFetch(err.message) THEN friendly ELSE err.message]

\* res.ok
StatusOk(status) == status >= 200 /\ status <= 299

(***************************************************************************)
(* receiveData after `await res.text()`                                    *)
(***************************************************************************)
receiveAfterText(status, text, friendly) ==
  LET parsed == JSONparse(text)
      json == IF parsed.threw THEN Null ELSE parsed.value
  IN IF IsFalsy(json) THEN [ok |-> StatusOk(status), status |-> status, body |-> text]
     ELSE LET flat == Flatten(json)
          IN IF flat.threw THEN CatchResult(flat.error, friendly)
             ELSE [ok |-> StatusOk(status), status |-> status,
                   feeds |-> flat.value, body |-> json]

(***************************************************************************)
(* normalizeMac                                                            *)
(***************************************************************************)
\* the length a stripped MAC must have: hex.length !== 12
MacHexLen == 12

HexChars == {"0", "1", "2", "3", "4", "5", "6", "7", "8", "9",
             "A", "B", "C", "D", "E", "F"}

\* String.prototype.toUpperCase on one character of the model's alphabet
UpperChar(c) ==
  CASE c = "a" -> "A"
    [] c = "b" -> "B"
    [] c = "c" -> "C"
    [] c = "d" -> "D"
    [] c = "e" -> "E"
    [] c = "f" -> "F"
    [] c = "g" -> "G"
    [] OTHER -> c

toUpperCase(s) == [i \in 1..Len(s) |-> UpperChar(s[i])]

\* s.replace(/[^0-9A-F]/g, ''): drop every character that is not 0-9A-F
RECURSIVE StripNonHex(_)
StripNonHex(s) ==
  IF s = <<>> THEN <<>>
  ELSE IF Head(s) \in HexChars THEN <<Head(s)>> \o StripNonHex(Tail(s))
       ELSE StripNonHex(Tail(s))

\* a slip: /.{1,3}/g, groups of three
RECURSIVE MatchPairs_triples(_)
MatchPairs_triples(s) ==
  IF s = <<>> THEN <<>>
  ELSE IF Len(s) <= 3 THEN <<s>>
       ELSE <<SubSeq(s, 1, 3)>> \o MatchPairs_triples(SubSeq(s, 4, Len(s)))

\* s.match(/.{1,2}/g): greedy groups of two characters, a last group of one
RECURSIVE MatchPairs(_)
MatchPairs(s) ==
  IF s = <<>> THEN <<>>
  ELSE IF Len(s) = 1 THEN <<s>>
       ELSE <<SubSeq(s, 1, 2)>> \o MatchPairs(SubSeq(s, 3, Len(s)))

\* groups.join(':')
RECURSIVE JoinColon(_)
JoinColon(groups) ==
  IF groups = <<>> THEN <<>>
  ELSE IF Len(groups) = 1 THEN groups[1]
       ELSE groups[1] \o <<":">> \o JoinColon(Tail(groups))

\* a slip: the groups are cut from the raw uppercased string, not from hex
normalizeMac_formatsRaw(mac) ==
  IF IsFalsy(mac) THEN mac
  ELSE LET hex == StripNonHex(toUpperCase(mac.s))
       IN IF Len(hex) # MacHexLen THEN mac
          ELSE Str(JoinColon(MatchPairs(toUpperCase(mac.s))))

\* a slip: the stripped string is returned when the length is unexpected
normalizeMac_returnsHex(mac) ==
  IF IsFalsy(mac) THEN mac
  ELSE LET hex == StripNonHex(toUpperCase(mac.s))
       IN IF Len(hex) # MacHexLen THEN Str(hex)
          ELSE Str(JoinColon(MatchPairs(hex)))

normalizeMac(mac) ==
  IF IsFalsy(mac) THEN mac
  ELSE LET hex == StripNonHex(toUpperCase(mac.s))
       IN IF Len(hex) # MacHexLen THEN mac
          ELSE Str(JoinColon(MatchPairs(hex)))

(***************************************************************************)
(* sendData: the payload                                                   *)
(***************************************************************************)
\* precision = 4
DefaultPrecision == 4

RangeError(msg) == [name |-> "RangeError", message |-> msg]

RECURSIVE IntToDigits(_)
IntToDigits(n) ==
  IF n < 10 THEN <<Digits[n + 1]>>
  ELSE IntToDigits(n \div 10) \o <<Digits[(n % 10) + 1]>>

RECURSIVE PadZeros(_, _)
PadZeros(ds, w) == IF Len(ds) >= w THEN ds ELSE PadZeros(<<"0">> \o ds, w)

\* x.toFixed(f): a RangeError outside 0..100, "NaN" for NaN, else the nearest
\* decimal with f fraction digits, a tie going to the larger magnitude (the
\* model's numbers are exact binary fractions, so ties are real ties)
toFixed(x, f) ==
  IF f < 0 \/ f > 100
  THEN Throw(RangeError("toFixed() digits argument must be between 0 and 100"))
  ELSE IF x = NaN THEN Normal(Str(<<"N", "a", "N">>))
  ELSE LET a == IF x.m < 0 THEN -x.m ELSE x.m
           n == IF f >= FracDigits THEN a * Pow10(f - FracDigits)
                ELSE (2 * a + Pow10(FracDigits - f)) \div (2 * Pow10(FracDigits - f))
           ds == PadZeros(IntToDigits(n), f + 1)
           body == IF f = 0 THEN ds
                   ELSE SubSeq(ds, 1, Len(ds) - f) \o <<".">>
                        \o SubSeq(ds, Len(ds) - f + 1, Len(ds))
       IN Normal(Str((IF x.m < 0 THEN <<"-">> ELSE <<>>) \o body))

\* a slip: toFixed(4) whatever the precision
RECURSIVE MapSensors_fixedPrecision(_, _, _)
MapSensors_fixedPrecision(items, k, f) ==
  IF k > Len(items) THEN Normal(<<>>)
  ELSE IF Nullish(items[k]) THEN Throw(TypeError("Cannot read properties of null"))
  ELSE LET data == IF f < 0 \/ f > 100 THEN toFixed(NaN, f)
                   ELSE toFixed(ToNumber(Get(items[k], "value")), DefaultPrecision)
       IN IF data.threw THEN data
          ELSE LET rest == MapSensors_fixedPrecision(items, k + 1, f)
               IN IF rest.threw THEN rest
                  ELSE Normal(<<Obj([info |-> Get(items[k], "info"),
                                     data |-> data.value])>> \o rest.value)

\* sensors.map(s => ({ info: s.info, data: Number(s.value).toFixed(precision) }))
RECURSIVE MapSensors(_, _, _)
MapSensors(items, k, f) ==
  IF k > Len(items) THEN Normal(<<>>)
  ELSE IF Nullish(items[k]) THEN Throw(TypeError("Cannot read properties of null"))
  ELSE LET data == toFixed(ToNumber(Get(items[k], "value")), f)
       IN IF data.threw THEN data
          ELSE LET rest == MapSensors(items, k + 1, f)
               IN IF rest.threw THEN rest
                  ELSE Normal(<<Obj([info |-> Get(items[k], "info"),
                                     data |-> data.value])>> \o rest.value)

DefaultFirmware == Str(<<"0", ".", "0">>)

DefaultArchitecture == Str(<<"unknown">>)

DefaultMac ==
  Str(<<"0","0",":","0","0",":","0","0",":","0","0",":","0","0",":","0","0">>)

\* the boardInfo member of the payload: each field, or its default when falsy
PayloadBoardInfo(boardInfo) ==
  Obj([firmwareVersion |-> OrElse(Get(boardInfo, "firmwareVersion"), DefaultFirmware),
       architecture |-> OrElse(Get(boardInfo, "architecture"), DefaultArchitecture),
       deviceMAC |-> OrElse(Get(boardInfo, "deviceMAC"), DefaultMac),
       statusOTA |-> Bool(~IsFalsy(Get(boardInfo, "statusOTA"))),
       signalStrength |-> OrElse(Get(boardInfo, "signalStrength"), Num(0))])

\* const payload = { sensors: { sensorData: ... }, boardInfo: { ... } }; it
\* throws when sensors is no array, a sensor is null, the precision is out of
\* range or boardInfo is null
BuildPayload(sensors, boardInfo, f) ==
  IF sensors.t # "array" THEN Throw(TypeError("sensors.map is not a function"))
  ELSE LET data == MapSensors(sensors.a, 1, f)
       IN IF data.threw THEN data
          ELSE IF Nullish(boardInfo)
          THEN Throw(TypeError("Cannot read properties of null"))
          ELSE Normal(Obj([sensors |-> Obj([sensorData |-> Arr(data.value)]),
                           boardInfo |-> PayloadBoardInfo(boardInfo)]))

\* if (boardInfo && boardInfo.deviceMAC) boardInfo.deviceMAC = normalizeMac(...):
\* the object the caller passed, after the assignment
NormalizeInPlace(boardInfo) ==
  IF ~IsFalsy(boardInfo) /\ ~IsFalsy(Get(boardInfo, "deviceMAC"))
  THEN Obj([boardInfo.f EXCEPT !["deviceMAC"] = normalizeMac(@)])
  ELSE boardInfo

\* the precision parameter as toFixed takes it
PrecisionOf(arg) == IF arg = Undefined THEN DefaultPrecision ELSE arg.m \div Scale

(***************************************************************************)
(* Request construction                                                    *)
(***************************************************************************)
DEFAULT_SEND_URL == Str(<<"https:", "//api.consentiumiot.com/v2/updateData?">>)

DEFAULT_RECEIVE_URL == Str(<<"https:", "//api.consentiumiot.com/getData?">>)

\* encodeURIComponent on one character of the model's alphabet
EncodeChar(c) ==
  CASE c = " " -> "%20"
    [] c = "&" -> "%26"
    [] c = "=" -> "%3D"
    [] OTHER -> c

encodeURIComponent(v) == [i \in 1..Len(v.s) |-> EncodeChar(v.s[i])]

\* url.startsWith('https:')
StartsWithHttps(url) == Len(url.s) > 0 /\ url.s[1] = "https:"

\* proxyBase.replace(/\/$/, '')
StripTrailingSlash(s) ==
  IF Len(s) > 0 /\ s[Len(s)] = "/" THEN SubSeq(s, 1, Len(s) - 1) ELSE s

\* recents ? "true" : "false", recents = true by default
RecentsText(arg) == IF arg = Undefined \/ ~IsFalsy(arg) THEN "true" ELSE "false"

\* new https.Agent(sslOptions), attached when sslOptions is set and the url
\* is an https one
AgentFor(cfg, url) ==
  IF ~IsFalsy(cfg.sslOptions) /\ StartsWithHttps(url)
  THEN [agentOptions |-> cfg.sslOptions] ELSE Undefined

Request(url, method, contentType, body, agent) ==
  [url |-> url, method |-> method, contentType |-> contentType,
   body |-> body, agent |-> agent]

\* src/unnamed/part_000, sendData: url and fetchOpts
DirectSendRequest(cfg, a, payload) ==
  LET base == OrElse(cfg.overrideSendUrl, DEFAULT_SEND_URL)
      url == Str(base.s \o <<"sendKey=">> \o encodeURIComponent(a.sendKey)
                 \o <<"&boardKey=">> \o encodeURIComponent(a.boardKey))
  IN Request(url, "POST", "application/json", JSONstringify(payload), AgentFor(cfg, url))

\* src/consentium.js, sendData: url and opts; with a proxy base the body is
\* { sendKey, boardKey, sensors, boardInfo }
ProxySendRequest(cfg, a, boardInfo, payload) ==
  IF ~IsFalsy(cfg.proxyBase)
  THEN Request(Str(StripTrailingSlash(cfg.proxyBase.s) \o <<"/send">>),
               "POST", "application/json",
               JSONstringify(Obj([sendKey |-> a.sendKey, boardKey |-> a.boardKey,
                                  sensors |-> a.sensors, boardInfo |-> boardInfo])),
               Undefined)
  ELSE Request(Str(DEFAULT_SEND_URL.s \o <<"sendKey=">> \o encodeURIComponent(a.sendKey)
                   \o <<"&boardKey=">> \o encodeURIComponent(a.boardKey)),
               "POST", "application/json", JSONstringify(payload), Undefined)

\* src/unnamed/part_000, receiveData: url and fetchOpts
DirectReceiveRequest(cfg, a) ==
  LET base == OrElse(cfg.overrideReceiveUrl, DEFAULT_RECEIVE_URL)
      url == Str(base.s \o <<"recents=", RecentsText(a.recents), "&receiveKey=">>
                 \o encodeURIComponent(a.receiveKey)
                 \o <<"&boardKey=">> \o encodeURIComponent(a.boardKey))
  IN Request(url, "GET", Undefined, Undefined, AgentFor(cfg, url))

\* src/consentium.js, receiveData: url and options
ProxyReceiveRequest(cfg, a) ==
  IF ~IsFalsy(cfg.proxyBase)
  THEN Request(Str(StripTrailingSlash(cfg.proxyBase.s) \o <<"/receive?receiveKey=">>
                   \o encodeURIComponent(a.receiveKey)
                   \o <<"&boardKey=">> \o encodeURIComponent(a.boardKey)
                   \o <<"&recents=", RecentsText(a.recents)>>),
               "GET", Undefined, Undefined, Undefined)
  ELSE Request(Str(DEFAULT_RECEIVE_URL.s
                   \o <<"recents=", RecentsText(a.recents), "&receiveKey=">>
                   \o encodeURIComponent(a.receiveKey)
                   \o <<"&boardKey=">> \o encodeURIComponent(a.boardKey)),
               "GET", Undefined, Undefined, Undefined)

\* sendData up to `await fetch(url, opts)`: the caller's boardInfo object
\* after the MAC assignment, and either the error thrown before the try
\* block or the request handed to fetch
sendPrepare(v, cfg, a) ==
  LET given == IF a.boardInfo = Undefined THEN EmptyObj ELSE a.boardInfo
      boardInfo == NormalizeInPlace(given)
      payload == BuildPayload(a.sensors, boardInfo, PrecisionOf(a.precision))
  IN [boardInfo |-> IF a.boardInfo = Undefined THEN Undefined ELSE boardInfo,
      threw |-> payload.threw,
      error |-> IF payload.threw THEN payload.error ELSE Undefined,
      req |-> IF payload.threw THEN Undefined
              ELSE IF v = "part_000"
                   THEN DirectSendRequest(cfg, a, payload.value)
                   ELSE ProxySendRequest(cfg, a, boardInfo, payload.value)]

\* receiveData up to `await fetch(url, opts)`
receivePrepare(v, cfg, a) ==
  IF v = "part_000" THEN DirectReceiveRequest(cfg, a)
  ELSE ProxyReceiveRequest(cfg, a)

\* sendData after `await res.text()`: the body parsed, or the raw text
sendAfterText(status, text) ==
  LET parsed == JSONparse(text)
  IN [ok |-> StatusOk(status), status |-> status,
      body |-> IF parsed.threw THEN text ELSE parsed.value]

(***************************************************************************)
(* The module as a state machine: the configuration setters and the        *)
(* invocations of sendData and receiveData, each cut at its awaits.        *)
(***************************************************************************)
\* the module-level configuration an invocation reads
Config ==
  [proxyBase |-> proxyBase, overrideSendUrl |-> overrideSendUrl,
   overrideReceiveUrl |-> overrideReceiveUrl, sslOptions |-> sslOptions]

Idle ==
  [pc |-> "idle", kind |-> "none", args |-> Undefined, cfg |-> Undefined,
   req |-> Undefined, res |-> Undefined, out |-> Undefined]

PartSendHint == "Failed to fetch: network or CORS issue when called from a browser"

ProxySendHint == "Failed to fetch: this may be a CORS issue in the browser"

ProxyReceiveHint == "Failed to fetch: likely a CORS/preflight block"

\* the friendly hint of an invocation's catch block
HintOf(v, kind) ==
  IF v = "part_000" THEN PartSendHint
  ELSE IF kind = "send" THEN ProxySendHint ELSE ProxyReceiveHint

\* setProxy(baseUrl)
setProxy(baseUrl) ==
  /\ variant = "consentium"
  /\ proxyBase' = OrElse(baseUrl, Null)
  /\ UNCHANGED <<variant, overrideSendUrl, overrideReceiveUrl, sslOptions,
                 calls, caller, wire, macVars, flatVars>>

\* setBaseUrls(sendUrl, receiveUrl)
setBaseUrls(sendUrl, receiveUrl) ==
  /\ variant = "part_000"
  /\ overrideSendUrl' = OrElse(sendUrl, Null)
  /\ overrideReceiveUrl' = OrElse(receiveUrl, Null)
  /\ UNCHANGED <<variant, proxyBase, sslOptions, calls, caller, wire, macVars, flatVars>>

\* setSslOptions(options)
setSslOptions(options) ==
  /\ variant = "part_000"
  /\ sslOptions' = OrElse(options, Null)
  /\ UNCHANGED <<variant, proxyBase, overrideSendUrl, overrideReceiveUrl,
                 calls, caller, wire, macVars, flatVars>>

\* sendData(sendKey, boardKey, sensors, boardInfo, precision) up to its first
\* await: the MAC is assigned into the caller's boardInfo, the payload is
\* built (a throw there rejects the returned promise), fetch is called
sendData(c, a) ==
  /\ calls[c].pc = "idle"
  /\ LET p == sendPrepare(variant, Config, a)
     IN /\ caller' = [caller EXCEPT ![c] = [sensors |-> a.sensors,
                                            boardInfo |-> p.boardInfo]]
        /\ calls' = [calls EXCEPT ![c] =
             IF p.threw
             THEN [Idle EXCEPT !.pc = "rejected", !.kind = "send", !.args = a,
                               !.cfg = Config, !.out = p.error]
             ELSE [Idle EXCEPT !.pc = "fetch", !.kind = "send", !.args = a,
                               !.cfg = Config, !.req = p.req]]
  /\ UNCHANGED <<variant, cfgVars, wire, macVars, flatVars>>

\* receiveData(receiveKey, boardKey, recents) up to its first await
receiveData(c, a) ==
  /\ calls[c].pc = "idle"
  /\ calls' = [calls EXCEPT ![c] =
       [Idle EXCEPT !.pc = "fetch", !.kind = "receive", !.args = a, !.cfg = Config,
                    !.req = receivePrepare(variant, Config, a)]]
  /\ UNCHANGED <<variant, cfgVars, caller, wire, macVars, flatVars>>

\* a slip: url and options are evaluated after an await, from the
\* configuration as it is by then
InFlightRequest_builtLate(c) ==
  IF calls[c].kind = "send" THEN sendPrepare(variant, Config, calls[c].args).req
  ELSE receivePrepare(variant, Config, calls[c].args)

\* the request of an invocation awaiting fetch: url and options were
\* evaluated before the await, so it is the one stored at the call
InFlightRequest(c) == calls[c].req

\* fetch rejects: the catch block returns the error result
FetchRejects(c, err) ==
  /\ calls[c].pc = "fetch"
  /\ calls' = [calls EXCEPT ![c].pc = "done",
                            ![c].out = CatchResult(err, HintOf(variant, calls[c].kind))]
  /\ UNCHANGED <<variant, cfgVars, caller, wire, macVars, flatVars>>

\* fetch resolves: the server received the request and its status line and
\* headers are in
FetchResolves(c, status) ==
  /\ calls[c].pc = "fetch"
  /\ wire' = [wire EXCEPT ![c] = InFlightRequest(c)]
  /\ calls' = [calls EXCEPT ![c].pc = "text",
                            ![c].res = [status |-> status, text |-> Undefined]]
  /\ UNCHANGED <<variant, cfgVars, caller, macVars, flatVars>>

\* res.text() rejects: the body cannot be read
TextRejects(c, err) ==
  /\ calls[c].pc = "text"
  /\ calls' = [calls EXCEPT ![c].pc = "done",
                            ![c].out = CatchResult(err, HintOf(variant, calls[c].kind))]
  /\ UNCHANGED <<variant, cfgVars, caller, wire, macVars, flatVars>>

\* res.text() resolves with the body: the rest of the function runs to its
\* return
TextResolves(c, text) ==
  /\ calls[c].pc = "text"
  /\ calls' = [calls EXCEPT ![c].pc = "done", ![c].res.text = text,
       ![c].out = IF calls[c].kind = "send"
                  THEN sendAfterText(calls[c].res.status, text)
                  ELSE receiveAfterText(calls[c].res.status, text,
                                        HintOf(variant, calls[c].kind))]
  /\ UNCHANGED <<variant, cfgVars, caller, wire, macVars, flatVars>>

(***************************************************************************)
(* Inputs                                                                  *)
(***************************************************************************)
\* the sensors a caller passes: at most MaxSensors
MaxSensors == 2

MacLower ==
  Str(<<"a","a","-","b","b","-","c","c","-","1","1","-","2","2","-","3","3">>)

MacUpper ==
  Str(<<"A","A",":","B","B",":","C","C",":","1","1",":","2","2",":","3","3">>)

MacShort == Str(<<"a", "a", "b", "b", "c", "c">>)

\* 23.5 as a number and -1.125 as a string
SensorOptions ==
  { Obj([info |-> Str(<<"Temperature">>), value |-> Num((47 * Scale) \div 2)]),
    Obj([info |-> Str(<<"Offset">>), value |-> Str(<<"-", "1", ".", "1", "2", "5">>)]) }

SensorsOptions ==
  { Arr(a) : a \in UNION { [1..n -> SensorOptions] : n \in 0..MaxSensors } }

\* every field supplied and falsy
FalsyBoardInfo ==
  Obj([firmwareVersion |-> Str(<<>>), architecture |-> Str(<<>>), deviceMAC |-> Str(<<>>),
       statusOTA |-> Bool(FALSE), signalStrength |-> Num(0)])

BoardInfoOptions ==
  {Undefined, Null, FalsyBoardInfo} \cup
  { Obj(Prune([firmwareVersion |-> rest.fw, deviceMAC |-> mac,
               architecture |-> rest.arch, statusOTA |-> rest.ota,
               signalStrength |-> rest.rssi])) :
      mac \in {Undefined, MacLower, MacUpper, MacShort},
      rest \in { [fw |-> Undefined, arch |-> Undefined, ota |-> Undefined,
                  rssi |-> Undefined],
                 [fw |-> Str(<<"1", ".", "0", ".", "1">>), arch |-> Str(<<"ESP32">>),
                  ota |-> Bool(TRUE), rssi |-> Num(-60 * Scale)] } }

PrecisionOptions == {Undefined, Num(2 * Scale), Num(101 * Scale)}

SendArgs ==
  [sendKey : {Str(<<"k", " ", "&">>)}, boardKey : {Str(<<"b", "1">>)},
   sensors : SensorsOptions, boardInfo : BoardInfoOptions,
   precision : PrecisionOptions]

ReceiveArgs ==
  [receiveKey : {Str(<<"r", "=", "1">>)}, boardKey : {Str(<<"b", "1">>)},
   recents : {Undefined, Bool(FALSE)}]

GoodDocument ==
  Obj([board |-> Obj([info1 |-> Str(<<"Temp">>), info3 |-> Str(<<"Light">>)]),
       feeds |-> Arr(<<Obj([value1 |-> Num(10 * Scale), value2 |-> Num(99 * Scale),
                            value3 |-> Num(20 * Scale)])>>)])

NullFeedDocument ==
  Obj([board |-> Obj([info1 |-> Str(<<"Temp">>)]),
       feeds |-> Arr(<<Obj([value1 |-> Num(Scale)]), Null>>)])

\* what the server answers
Statuses == {200, 500}

ResponseTexts ==
  { RawText("<html>"), JsonText(Num(0)), JsonText(GoodDocument),
    JsonText(NullFeedDocument) }

FetchErrors == { TypeError("Failed to fetch"), TypeError("fetch failed") }

TextErrors == { TypeError("terminated") }

ProxyOptions == {Undefined, Str(<<"http:", "//localhost:3000/api", "/">>)}

UrlOptions == {Undefined, Str(<<"http:", "//localhost:8080/relay?">>)}

SslOptions == {Undefined, Obj([rejectUnauthorized |-> Bool(FALSE)])}

(***************************************************************************)
(* Specifications                                                          *)
(***************************************************************************)
MacOff == macIn = Undefined /\ macOnce = Undefined /\ macTwice = Undefined /\ macPc = "off"

FlatOff == flatRes = Undefined /\ flatOut = Undefined /\ flatPc = "off"

\* the module as loaded: proxyBase = '/api', the overrides and sslOptions null
Loaded ==
  /\ variant \in {"part_000", "consentium"}
  /\ proxyBase = Str(<<"/api">>)
  /\ overrideSendUrl = Null
  /\ overrideReceiveUrl = Null
  /\ sslOptions = Null

CallsOff ==
  /\ variant = "part_000"
  /\ proxyBase = Str(<<"/api">>)
  /\ overrideSendUrl = Null
  /\ overrideReceiveUrl = Null
  /\ sslOptions = Null
  /\ calls = <<>>
  /\ caller = <<>>
  /\ wire = <<>>

\* one caller, every argument of the bounded families
Init ==
  /\ Loaded
  /\ calls = [c \in {1} |-> Idle]
  /\ caller = [c \in {1} |-> Undefined]
  /\ wire = [c \in {1} |-> Undefined]
  /\ MacOff
  /\ FlatOff

Next ==
  \/ \E b \in ProxyOptions : setProxy(b)
  \/ \E u \in UrlOptions : setBaseUrls(u, u)
  \/ \E o \in SslOptions : setSslOptions(o)
  \/ \E c \in DOMAIN calls, a \in SendArgs : sendData(c, a)
  \/ \E c \in DOMAIN calls, a \in ReceiveArgs : receiveData(c, a)
  \/ \E c \in DOMAIN calls, e \in FetchErrors : FetchRejects(c, e)
  \/ \E c \in DOMAIN calls, st \in Statuses : FetchResolves(c, st)
  \/ \E c \in DOMAIN calls, e \in TextErrors : TextRejects(c, e)
  \/ \E c \in DOMAIN calls, tx \in ResponseTexts : TextResolves(c, tx)

Spec == Init /\ [][Next]_vars

(***************************************************************************)
(* The concurrency specification: MaxCallers independent callers, each     *)
(* with one invocation, interleaved with one another and with the setters. *)
(***************************************************************************)
MaxCallers == 2

ConcSendArgs ==
  [sendKey : {Str(<<"k", " ", "&">>)}, boardKey : {Str(<<"b", "1">>)},
   sensors : {Arr(<<Obj([info |-> Str(<<"Temperature">>),
                         value |-> Num((47 * Scale) \div 2)])>>)},
   boardInfo : {Obj([deviceMAC |-> MacLower])}, precision : {Undefined}]

ConcReceiveArgs ==
  [receiveKey : {Str(<<"r", "=", "1">>)}, boardKey : {Str(<<"b", "1">>)},
   recents : {Undefined}]

ConcInit ==
  /\ Loaded
  /\ calls = [c \in 1..MaxCallers |-> Idle]
  /\ caller = [c \in 1..MaxCallers |-> Undefined]
  /\ wire = [c \in 1..MaxCallers |-> Undefined]
  /\ MacOff
  /\ FlatOff

ConcNext ==
  \/ \E b \in ProxyOptions : setProxy(b)
  \/ \E u \in UrlOptions : setBaseUrls(u, u)
  \/ \E o \in SslOptions : setSslOptions(o)
  \/ \E c \in DOMAIN calls, a \in ConcSendArgs : sendData(c, a)
  \/ \E c \in DOMAIN calls, a \in ConcReceiveArgs : receiveData(c, a)
  \/ \E c \in DOMAIN calls : FetchRejects(c, TypeError("Failed to fetch"))
  \/ \E c \in DOMAIN calls : FetchResolves(c, 200)
  \/ \E c \in DOMAIN calls : TextRejects(c, TypeError("terminated"))
  \/ \E c \in DOMAIN calls : TextResolves(c, JsonText(GoodDocument))

SpecConc == ConcInit /\ [][ConcNext]_vars

(***************************************************************************)
(* The MAC specification: normalizeMac on strings built from a few pieces  *)
(* (lower/upper hex pairs, pairs followed by ':' or '-', a lone hex digit, *)
(* a letter that is not hex), at most MaxPieces of them; and null.         *)
(***************************************************************************)
MaxPieces == 6

MacPieces == { <<"a", "A">>, <<"1", "f", ":">>, <<"C", "0", "-">>, <<"9">>, <<"g">> }

RECURSIVE Concat(_)
Concat(ps) == IF ps = <<>> THEN <<>> ELSE Head(ps) \o Concat(Tail(ps))

MacInputs ==
  {Null} \cup
  { Str(Concat(ps)) : ps \in UNION { [1..n -> MacPieces] : n \in 0..MaxPieces } }

MacInit ==
  /\ CallsOff
  /\ FlatOff
  /\ macIn \in MacInputs
  /\ macOnce = Undefined
  /\ macTwice = Undefined
  /\ macPc = "start"

\* normalizeMac(mac)
NormalizeOnce ==
  /\ macPc = "start"
  /\ macOnce' = normalizeMac(macIn)
  /\ macPc' = "once"
  /\ UNCHANGED <<macIn, macTwice, callVars, flatVars>>

\* normalizeMac(normalizeMac(mac))
NormalizeTwice ==
  /\ macPc = "once"
  /\ macTwice' = normalizeMac(macOnce)
  /\ macPc' = "twice"
  /\ UNCHANGED <<macIn, macOnce, callVars, flatVars>>

MacNext == NormalizeOnce \/ NormalizeTwice

SpecMac == MacInit /\ [][MacNext]_vars

(***************************************************************************)
(* The flattening specification: receiveData from `await res.text()` on,   *)
(* for every response text of a bounded family of documents.  Labels and   *)
(* values sit at indices 1, 2 and 8; a board or a feeds member may be      *)
(* absent, null or of another type, and a feed entry may be null or a      *)
(* number.                                                                 *)
(***************************************************************************)
MaxFeeds == 2

BoardOptions ==
  {Undefined, Null, Num(5 * Scale)} \cup
  { Obj(Prune([info1 |-> a, info2 |-> b, info8 |-> c])) :
      a \in {Undefined, Str(<<"Temp">>), Str(<<>>)},
      b \in {Undefined, Str(<<"Hum">>)},
      c \in {Undefined, Str(<<"Light">>)} }

FeedOptions ==
  {Null, Num(7 * Scale)} \cup
  { Obj(Prune([value1 |-> a, value2 |-> b, value8 |-> c])) :
      a \in {Undefined, Num(0), Str(<<"2", "3", ".", "5">>), Null},
      b \in {Undefined, Num(99 * Scale)},
      c \in {Undefined, Str(<<"x">>)} }

FeedsOptions ==
  {Undefined, Null, Num(3 * Scale), EmptyObj, Str(<<"a", "b">>)} \cup
  { Arr(a) : a \in UNION { [1..n -> FeedOptions] : n \in 0..MaxFeeds } }

Documents ==
  {Null, Num(0), Num(Scale), Arr(<<>>)} \cup
  { Obj(Prune([board |-> b, feeds |-> f])) : b \in BoardOptions, f \in FeedsOptions }

FlatTexts == {RawText("<html>")} \cup { JsonText(d) : d \in Documents }

FlatInit ==
  /\ CallsOff
  /\ MacOff
  /\ flatRes \in [status : Statuses, text : FlatTexts]
  /\ flatOut = Undefined
  /\ flatPc = "text"

\* the rest of receiveData once the response text is read
FlattenResponse ==
  /\ flatPc = "text"
  /\ flatOut' = receiveAfterText(flatRes.status, flatRes.text, PartSendHint)
  /\ flatPc' = "done"
  /\ UNCHANGED <<flatRes, callVars, macVars>>

FlatNext == FlattenResponse

SpecFlat == FlatInit /\ [][FlatNext]_vars

(***************************************************************************)
(* Properties of normalizeMac (SpecMac)                                    *)
(***************************************************************************)
\* the input uppercased and stripped of every character not in 0-9A-F
HexOf(mac) == StripNonHex(toUpperCase(mac.s))

\* C4: an input whose stripped hex string has exactly 12 characters is
\* returned as that string cut in order into 6 groups of 2 digits joined by
\* ':': 17 characters, every third one ':', the others the digits in order.
C4_TwelveHexReformatted ==
  (macPc # "start" /\ ~IsFalsy(macIn) /\ Len(HexOf(macIn)) = 12) =>
    /\ macOnce.t = "string"
    /\ Len(macOnce.s) = 17
    /\ \A k \in 0..5 :
         /\ macOnce.s[3 * k + 1] = HexOf(macIn)[2 * k + 1]
         /\ macOnce.s[3 * k + 2] = HexOf(macIn)[2 * k + 2]
         /\ k < 5 => macOnce.s[3 * k + 3] = ":"

\* "aAC0-1f:aAC0-1f:" has become "AA:C0:1F:AA:C0:1F"
C4_Witness ==
  /\ macPc = "once"
  /\ macIn = Str(<<"a","A", "C","0","-", "1","f",":", "a","A", "C","0","-", "1","f",":">>)
  /\ macOnce = Str(<<"A","A",":","C","0",":","1","F",":","A","A",":","C","0",":","1","F">>)

\* C5: null and "" come back as themselves, and an input whose stripped hex
\* string has a length other than 12 comes back as the original input,
\* neither uppercased nor stripped.
C5_OtherInputsUnchanged ==
  (macPc # "start" /\ (IsFalsy(macIn) \/ Len(HexOf(macIn)) # 12)) => macOnce = macIn

\* "1f:aAg", three hex pairs short, has come back as it went in
C5_Witness ==
  /\ macPc = "once"
  /\ macIn = Str(<<"1","f",":", "a","A", "g">>)
  /\ macOnce = macIn

\* C6: normalizeMac(normalizeMac(x)) = normalizeMac(x) for every x with
\* exactly 12 hex characters after stripping.
C6_Idempotent ==
  (macPc = "twice" /\ ~IsFalsy(macIn) /\ Len(HexOf(macIn)) = 12) => macTwice = macOnce

\* "1f:C0-aAaAC0-1f:", normalized twice, is "1F:C0:AA:AA:C0:1F"
C6_Witness ==
  /\ macPc = "twice"
  /\ macIn = Str(<<"1","f",":", "C","0","-", "a","A", "a","A", "C","0","-", "1","f",":">>)
  /\ macOnce # macIn
  /\ macTwice = Str(<<"1","F",":","C","0",":","A","A",":","A","A",":","C","0",":","1","F">>)

(***************************************************************************)
(* Properties of the flattening (SpecFlat)                                 *)
(***************************************************************************)
\* the parsed response document, when the text is JSON
FlatDoc == flatRes.text.value

\* receiveData got past `if (!json)`: the text parsed to a truthy document
FlatParsed == flatPc = "done" /\ flatRes.text.isJson /\ ~IsFalsy(FlatDoc)

\* o has a member named key (null, numbers and strings have none)
Has(o, key) == o.t = "object" /\ key \in DOMAIN o.f

\* the document's board, and its feeds when they are a sequence
BoardOf(d) == IF Has(d, "board") THEN d.f.board ELSE EmptyObj

FeedsOf(d) == IF Has(d, "feeds") /\ d.f.feeds.t = "array" THEN d.f.feeds.a ELSE <<>>

\* the feed positions and indices at which both the label and the value
\* are defined
DefinedPairs(d) ==
  { p \in (1..Len(FeedsOf(d))) \X (1..8) :
      Has(BoardOf(d), InfoKey(p[2])) /\ Has(FeedsOf(d)[p[1]], ValueKey(p[2])) }

ReadingAt(d, p) ==
  [info |-> BoardOf(d).f[InfoKey(p[2])],
   value |-> ToNumber(FeedsOf(d)[p[1]].f[ValueKey(p[2])])]

\* the feeds member is a sequence, or is missing
FeedsIsSequence(d) ==
  ~Has(d, "feeds") \/ d.f.feeds.t = "array" \/ IsFalsy(d.f.feeds)

\* C1: for every parsed document, feed and index, a reading
\* {info: board[info_i], value: Number(feed[value_i])} is emitted if and only
\* if both are defined: there are as many readings as defined pairs, every
\* defined pair has its reading, and every reading is that of a defined pair.
C1_EmittedIffBothDefined ==
  (FlatParsed /\ FeedsIsSequence(FlatDoc)) =>
    /\ "feeds" \in DOMAIN flatOut
    /\ Len(flatOut.feeds) = Cardinality(DefinedPairs(FlatDoc))
    /\ \A p \in DefinedPairs(FlatDoc) :
         \E j \in 1..Len(flatOut.feeds) : flatOut.feeds[j] = ReadingAt(FlatDoc, p)
    /\ \A j \in 1..Len(flatOut.feeds) :
         \E p \in DefinedPairs(FlatDoc) : flatOut.feeds[j] = ReadingAt(FlatDoc, p)

\* p comes before q: an earlier feed, or the same feed and a smaller index
Before(p, q) == p[1] < q[1] \/ (p[1] = q[1] /\ p[2] < q[2])

\* C2: the readings are ordered by feed position first and by ascending
\* index within a feed: the reading of a defined pair stands at the position
\* given by the number of defined pairs before it.
C2_FeedThenIndexOrder ==
  (FlatParsed /\ "feeds" \in DOMAIN flatOut /\ FeedsIsSequence(FlatDoc)) =>
    \A p \in DefinedPairs(FlatDoc) :
      LET rank == 1 + Cardinality({ q \in DefinedPairs(FlatDoc) : Before(q, p) })
      IN /\ rank <= Len(flatOut.feeds)
         /\ flatOut.feeds[rank] = ReadingAt(FlatDoc, p)

\* two different feeds, the first with readings at indices 1 and 8
C2_Witness ==
  /\ FlatParsed
  /\ FlatDoc = Obj([board |-> Obj([info1 |-> Str(<<"Temp">>), info8 |-> Str(<<"Light">>)]),
                    feeds |-> Arr(<<Obj([value1 |-> Str(<<"2", "3", ".", "5">>),
                                         value8 |-> Str(<<"x">>)]),
                                    Obj([value1 |-> Num(0), value2 |-> Num(99 * Scale)])>>)])
  /\ flatOut.feeds = << [info |-> Str(<<"Temp">>), value |-> Num((47 * Scale) \div 2)],
                        [info |-> Str(<<"Light">>), value |-> NaN],
                        [info |-> Str(<<"Temp">>), value |-> Num(0)] >>

\* C3: flattening never fails: every parsed document gives a list of
\* readings and no error result, an empty list when the board or the feeds
\* are missing.
C3_FlatteningTotal ==
  FlatParsed =>
    /\ "feeds" \in DOMAIN flatOut
    /\ "error" \notin DOMAIN flatOut
    /\ (~Has(FlatDoc, "board") \/ ~Has(FlatDoc, "feeds")) => flatOut.feeds = <<>>

(***************************************************************************)
(* Properties of the invocations (Spec)                                    *)
(***************************************************************************)
\* the invocation got as far as calling fetch
Transmitted(c) == calls[c].pc \in {"fetch", "text", "done"}

\* the response body was read
BodyRead(c) == calls[c].res # Undefined /\ calls[c].res.text # Undefined

\* C7: every call resolves to a result object and never throws or rejects;
\* when fetch rejects or the body cannot be read the result is
\* {ok: false, status: 0, error}, and when the server answers with a non-2xx
\* status the result has ok = false, the server's status, and as body the
\* parsed JSON, or the raw text when it is not JSON.
C7_FailuresAreValues ==
  \A c \in DOMAIN calls :
    /\ calls[c].pc # "rejected"
    /\ (calls[c].pc = "done" /\ ~BodyRead(c)) =>
         /\ calls[c].out.ok = FALSE
         /\ calls[c].out.status = 0
         /\ "error" \in DOMAIN calls[c].out
    /\ (calls[c].pc = "done" /\ BodyRead(c) /\ ~StatusOk(calls[c].res.status)) =>
         /\ calls[c].out.ok = FALSE
         /\ calls[c].out.status = calls[c].res.status
         /\ "body" \in DOMAIN calls[c].out
         /\ calls[c].out.body = IF calls[c].res.text.isJson
                                THEN calls[c].res.text.value ELSE calls[c].res.text

\* a field of boardInfo when it is there and truthy, else its default
FieldOr(o, key, default) ==
  IF Has(o, key) /\ ~IsFalsy(o.f[key]) THEN o.f[key] ELSE default

\* the payload document of the arguments a: one {info, data} entry per
\* sensor in input order, data the value as a string with the given number
\* of decimals (4 by default); the five boardInfo fields, each default in
\* place of a missing (or empty, zero or false) field, the MAC normalized
PayloadOf(a) ==
  LET bi == IF a.boardInfo = Undefined THEN EmptyObj ELSE a.boardInfo
      digits == IF a.precision = Undefined THEN 4 ELSE a.precision.m \div Scale
  IN Obj([sensors |-> Obj([sensorData |-> Arr(
            [i \in 1..Len(a.sensors.a) |->
               Obj([info |-> a.sensors.a[i].f.info,
                    data |-> toFixed(ToNumber(a.sensors.a[i].f.value), digits).value])])]),
          boardInfo |-> Obj(
            [firmwareVersion |-> FieldOr(bi, "firmwareVersion", Str(<<"0", ".", "0">>)),
             architecture |-> FieldOr(bi, "architecture", Str(<<"unknown">>)),
             deviceMAC |-> normalizeMac(FieldOr(bi, "deviceMAC",
               Str(<<"0","0",":","0","0",":","0","0",":","0","0",":","0","0",":","0","0">>))),
             statusOTA |-> FieldOr(bi, "statusOTA", Bool(FALSE)),
             signalStrength |-> FieldOr(bi, "signalStrength", Num(0))])])

\* what goes to a proxy: the arguments themselves, the MAC normalized
RelayedOf(a) ==
  LET bi == IF a.boardInfo = Undefined THEN EmptyObj ELSE a.boardInfo
  IN Obj([sendKey |-> a.sendKey, boardKey |-> a.boardKey, sensors |-> a.sensors,
          boardInfo |-> IF Has(bi, "deviceMAC")
                        THEN Obj([bi.f EXCEPT !["deviceMAC"] = normalizeMac(@)])
                        ELSE bi])

\* the invocation was made with a proxy base in effect
Proxied(c) == variant = "consentium" /\ ~IsFalsy(calls[c].cfg.proxyBase)

C9_InputsUnchanged ==
  \A c \in DOMAIN calls :
    /\ (calls[c].kind = "send" /\ calls[c].pc # "idle") =>
         /\ caller[c].sensors = calls[c].args.sensors
         /\ caller[c].boardInfo = calls[c].args.boardInfo
    /\ (calls[c].kind = "receive" /\ calls[c].pc = "done" /\ "feeds" \in DOMAIN calls[c].out) =>
         calls[c].out.body = calls[c].res.text.value

(***************************************************************************)
(* Properties of concurrent invocations (SpecConc)                         *)
(***************************************************************************)
\* the request an invocation makes when run alone with its arguments, under
\* the configuration it was called in
AloneRequest(call) ==
  IF call.kind = "send" THEN sendPrepare(variant, call.cfg, call.args).req
  ELSE receivePrepare(variant, call.cfg, call.args)

\* the result it returns alone for the response it got
AloneResult(call) ==
  IF call.kind = "send" THEN sendAfterText(call.res.status, call.res.text)
  ELSE receiveAfterText(call.res.status, call.res.text, HintOf(variant, call.kind))

C10_Step ==
  /\ (calls' # calls) => UNCHANGED cfgVars
  /\ Cardinality({ c \in DOMAIN calls : calls'[c] # calls[c] }) <= 1
  /\ \A c \in DOMAIN calls :
       /\ calls[c].pc \in {"fetch", "text"} =>
            /\ calls'[c].req = calls[c].req
            /\ calls'[c].args = calls[c].args
       /\ wire'[c] # Undefined => wire'[c] = AloneRequest(calls'[c])
       /\ (calls'[c].pc = "done" /\ calls'[c].res # Undefined
             /\ calls'[c].res.text # Undefined) =>
            calls'[c].out = AloneResult(calls'[c])

\* C10: in every interleaving of in-flight calls and setter calls, a call
\* writes no module-level state and changes no other call, a setter leaves
\* the request of a call awaiting its response as it is, the request the
\* server receives is the one the call makes when run alone with the same
\* arguments, and its result is the one it returns alone for that response.
C10_NoInterference == [][C10_Step]_vars

\* two calls are in flight, the configuration was changed after the first
\* was made, and the server has received the first one's request
C10_Witness ==
  \E c \in DOMAIN calls, d \in DOMAIN calls :
    /\ c # d
    /\ calls[c].pc = "text"
    /\ calls[d].pc = "fetch"
    /\ calls[c].cfg # Config
    /\ calls[d].cfg = Config
    /\ wire[c] = calls[c].req
    /\ calls[d].req.url # calls[c].req.url

====
